---- MODULE Spec2Model ----
(***************************************************************************)
(* Model of Scripts/patch-openapi-spec.py: the command line entry point,   *)
(* patch_spec, the file it reads and overwrites, and the text it prints.   *)
(*                                                                         *)
(* A JSON value is a pair <<tag, payload>>:                                *)
(*   <<"obj", members>>  members is a sequence of <<key, value>> pairs in  *)
(*                       insertion order (a Python dict)                   *)
(*   <<"arr", elements>> a Python list                                     *)
(*   <<"str", s>>, <<"num", n>>, <<"bool", b>>, <<"null", 0>>              *)
(* A file's content is the sequence of text chunks it holds.               *)
(***************************************************************************)
EXTENDS Integers, Sequences, FiniteSets, TLC

\* ------------------------------------------------------------------ bounds
MaxSchemas == 2      \* entries under components.schemas in an input document
MaxArgs    == 2      \* command line arguments after the program name
MaxRuns    == 2      \* invocations of the script in succession

\* ------------------------------------------------------------- JSON values
Obj(m)  == <<"obj", m>>
Arr(e)  == <<"arr", e>>
Str(s)  == <<"str", s>>
Num(n)  == <<"num", n>>
Bool(b) == <<"bool", b>>
Null    == <<"null", 0>>
Tag(v)  == v[1]
Val(v)  == v[2]
IsObj(v) == Tag(v) = "obj"

\* ---------------------------------------------------------------- the code
\* a fifth name has slipped into the list
SCHEMAS_TO_PATCH_Wide ==
    << "AIIdentificationInput",
       "IdentificationDataInput",
       "CardDetailsInput",
       "IdentifyCardResponseInput",
       "UnrelatedSchema" >>

SCHEMAS_TO_PATCH ==
    << "AIIdentificationInput",
       "IdentificationDataInput",
       "CardDetailsInput",
       "IdentifyCardResponseInput" >>

AllowListed == { SCHEMAS_TO_PATCH[i] : i \in 1..Len(SCHEMAS_TO_PATCH) }

\* The strings that occur in the documents of the model.
KeyNames == AllowListed \cup
            { "UnrelatedSchema", "cardDetailsInput", "additionalProperties",
              "type", "components", "schemas", "openapi", "securitySchemes" }
StrVals  == KeyNames \cup { "false", "object", "3.0.0", "see CardDetailsInput" }
NumVals  == 0..1

\* ---- dict operations of Python, on a sequence of <<key, value>> pairs ----
HasKey(m, k) == \E i \in 1..Len(m) : m[i][1] = k
KeyIndex(m, k) == CHOOSE i \in 1..Len(m) : m[i][1] = k
Lookup(m, k) == m[KeyIndex(m, k)][2]
\* the key is left in place
DelKey_Keep(m, k) == m
\* d[k] = True in place of the removal
DelKey_SetTrue(m, k) == [m EXCEPT ![KeyIndex(m, k)] = <<k, Bool(TRUE)>>]
\* del d[k]
DelKey(m, k) ==
    LET i == KeyIndex(m, k)
    IN  SubSeq(m, 1, i - 1) \o SubSeq(m, i + 1, Len(m))
\* d[k] = v : an existing key keeps its position, a new key goes last
SetKey(m, k, v) ==
    IF HasKey(m, k) THEN [m EXCEPT ![KeyIndex(m, k)] = <<k, v>>]
    ELSE Append(m, <<k, v>>)

\* ---------------------------------------------- json.dump(spec, f, indent=4)
RECURSIVE Indent(_)
Indent(level) == IF level = 0 THEN "" ELSE "    " \o Indent(level - 1)
NewlineIndent(level) == "\n" \o Indent(level)
Quote(s) == "\"" \o s \o "\""
ItemSeparator(level) == "," \o NewlineIndent(level)
KeySeparator == ": "

RECURSIVE Dump(_, _), DumpMembers(_, _, _), DumpElems(_, _, _)
Dump(v, level) ==
    CASE Tag(v) = "obj" ->
            IF Val(v) = <<>> THEN <<"{", "}">>
            ELSE <<"{", NewlineIndent(level + 1)>>
                 \o DumpMembers(Val(v), 1, level + 1)
                 \o <<NewlineIndent(level), "}">>
      [] Tag(v) = "arr" ->
            IF Val(v) = <<>> THEN <<"[", "]">>
            ELSE <<"[", NewlineIndent(level + 1)>>
                 \o DumpElems(Val(v), 1, level + 1)
                 \o <<NewlineIndent(level), "]">>
      [] Tag(v) = "str"  -> <<Quote(Val(v))>>
      [] Tag(v) = "num"  -> <<ToString(Val(v))>>
      [] Tag(v) = "bool" -> <<IF Val(v) THEN "true" ELSE "false">>
      [] Tag(v) = "null" -> <<"null">>
DumpMembers(m, i, level) ==
    IF i > Len(m) THEN <<>>
    ELSE (IF i = 1 THEN <<>> ELSE <<ItemSeparator(level)>>)
         \o <<Quote(m[i][1]), KeySeparator>>
         \o Dump(m[i][2], level)
         \o DumpMembers(m, i + 1, level)
DumpElems(e, i, level) ==
    IF i > Len(e) THEN <<>>
    ELSE (IF i = 1 THEN <<>> ELSE <<ItemSeparator(level)>>)
         \o Dump(e[i], level)
         \o DumpElems(e, i + 1, level)

\* --------------------------------------------------------------- json.load
MaxDepth == 8
Whitespace == { " " } \cup { NewlineIndent(l) : l \in 0..MaxDepth }
Commas     == { "," } \cup { ItemSeparator(l) : l \in 0..MaxDepth }
Colons     == { ":", KeySeparator }
StrTokens  == { Quote(s) : s \in StrVals }
NumTokens  == { ToString(n) : n \in NumVals }
Unquote(tok)  == CHOOSE s \in StrVals : Quote(s) = tok
ToNumber(tok) == CHOOSE n \in NumVals : ToString(n) = tok

RECURSIVE SkipWS(_, _)
SkipWS(toks, i) ==
    IF i <= Len(toks) /\ toks[i] \in Whitespace THEN SkipWS(toks, i + 1) ELSE i

ParseError == [ok |-> FALSE, val |-> Null, pos |-> 0]
Parsed(v, p) == [ok |-> TRUE, val |-> v, pos |-> p]

RECURSIVE ParseValue(_, _), ParseMembers(_, _, _), ParseElems(_, _, _)
\* the value that starts at the first non-blank chunk at or after i
ParseValue(toks, i0) ==
    LET i == SkipWS(toks, i0) IN
    IF i > Len(toks) THEN ParseError
    ELSE LET t == toks[i] IN
         CASE t = "{" ->
                LET j == SkipWS(toks, i + 1) IN
                IF j <= Len(toks) /\ toks[j] = "}" THEN Parsed(Obj(<<>>), j + 1)
                ELSE ParseMembers(toks, i + 1, <<>>)
           [] t = "[" ->
                LET j == SkipWS(toks, i + 1) IN
                IF j <= Len(toks) /\ toks[j] = "]" THEN Parsed(Arr(<<>>), j + 1)
                ELSE ParseElems(toks, i + 1, <<>>)
           [] t = "true"  -> Parsed(Bool(TRUE), i + 1)
           [] t = "false" -> Parsed(Bool(FALSE), i + 1)
           [] t = "null"  -> Parsed(Null, i + 1)
           [] t \in StrTokens -> Parsed(Str(Unquote(t)), i + 1)
           [] t \in NumTokens -> Parsed(Num(ToNumber(t)), i + 1)
           [] OTHER -> ParseError
\* "key": value pairs up to the closing brace; a repeated key overwrites
ParseMembers(toks, i0, acc) ==
    LET i == SkipWS(toks, i0) IN
    IF i > Len(toks) \/ toks[i] \notin StrTokens THEN ParseError
    ELSE LET c == SkipWS(toks, i + 1) IN
         IF c > Len(toks) \/ toks[c] \notin Colons THEN ParseError
         ELSE LET r == ParseValue(toks, c + 1) IN
              IF ~r.ok THEN ParseError
              ELSE LET acc2 == SetKey(acc, Unquote(toks[i]), r.val)
                       j == SkipWS(toks, r.pos)
                   IN  IF j > Len(toks) THEN ParseError
                       ELSE CASE toks[j] = "}" -> Parsed(Obj(acc2), j + 1)
                              [] toks[j] \in Commas -> ParseMembers(toks, j + 1, acc2)
                              [] OTHER -> ParseError
ParseElems(toks, i0, acc) ==
    LET r == ParseValue(toks, i0) IN
    IF ~r.ok THEN ParseError
    ELSE LET acc2 == Append(acc, r.val)
             j == SkipWS(toks, r.pos)
         IN  IF j > Len(toks) THEN ParseError
             ELSE CASE toks[j] = "]" -> Parsed(Arr(acc2), j + 1)
                    [] toks[j] \in Commas -> ParseElems(toks, j + 1, acc2)
                    [] OTHER -> ParseError
\* json.load: one value, then nothing but blanks
Load(toks) ==
    LET r == ParseValue(toks, 1) IN
    IF r.ok /\ SkipWS(toks, r.pos) > Len(toks) THEN r ELSE ParseError


\* a compact rendering (no blanks), as a generator of the input file may write
RECURSIVE Compact(_), CompactMembers(_, _), CompactElems(_, _)
Compact(v) ==
    CASE Tag(v) = "obj" -> <<"{">> \o CompactMembers(Val(v), 1) \o <<"}">>
      [] Tag(v) = "arr" -> <<"[">> \o CompactElems(Val(v), 1) \o <<"]">>
      [] OTHER -> Dump(v, 0)
CompactMembers(m, i) ==
    IF i > Len(m) THEN <<>>
    ELSE (IF i = 1 THEN <<>> ELSE <<",">>)
         \o <<Quote(m[i][1]), ":">> \o Compact(m[i][2]) \o CompactMembers(m, i + 1)
CompactElems(e, i) ==
    IF i > Len(e) THEN <<>>
    ELSE (IF i = 1 THEN <<>> ELSE <<",">>)
         \o Compact(e[i]) \o CompactElems(e, i + 1)

\* ------------------------------------------------ Python operators in use
\* `needle in hay` for two str objects, on the strings of the model
StrContains(hay, needle) ==
    \/ hay = needle
    \/ hay = "see CardDetailsInput" /\ needle = "CardDetailsInput"

\* value == False : bool is a subclass of int, so 0 == False holds as well
EqFalse(v) ==
    \/ Tag(v) = "bool" /\ Val(v) = FALSE
    \/ Tag(v) = "num"  /\ Val(v) = 0

Raise(e) == [exc |-> e, val |-> Null]
Return(v) == [exc |-> "", val |-> v]

\* obj[key] : a missing key raises
Get_Strict(obj, key, default) ==
    IF ~IsObj(obj) THEN Raise("TypeError")
    ELSE IF HasKey(Val(obj), key) THEN Return(Lookup(Val(obj), key))
    ELSE Raise("KeyError")
\* a lookup that answers the default for anything that is not a dict
Get_Lenient(obj, key, default) ==
    IF IsObj(obj) /\ HasKey(Val(obj), key) THEN Return(Lookup(Val(obj), key))
    ELSE Return(default)
\* obj.get(key, default) : only a dict has the method
Get(obj, key, default) ==
    IF ~IsObj(obj) THEN Raise("AttributeError")
    ELSE IF HasKey(Val(obj), key) THEN Return(Lookup(Val(obj), key))
    ELSE Return(default)

\* name in container
In(name, container) ==
    CASE Tag(container) = "obj" -> Return(Bool(HasKey(Val(container), name)))
      [] Tag(container) = "arr" ->
            Return(Bool(\E j \in 1..Len(Val(container)) : Val(container)[j] = Str(name)))
      [] Tag(container) = "str" -> Return(Bool(StrContains(Val(container), name)))
      [] OTHER -> Raise("TypeError")

\* container[name] for a str subscript
GetItem(container, name) ==
    IF ~IsObj(container) THEN Raise("TypeError")
    ELSE IF HasKey(Val(container), name) THEN Return(Lookup(Val(container), name))
    ELSE Raise("KeyError")

\* patched.insert(0, schema_name)
RecordPatched_Front(list, name) == <<name>> \o list
\* patched.append(schema_name)
RecordPatched(list, name) == Append(list, name)

\* ", ".join(patched)
RECURSIVE Join(_)
Join(names) ==
    IF names = <<>> THEN ""
    ELSE IF Len(names) = 1 THEN names[1]
    ELSE names[1] \o ", " \o Join(Tail(names))

UsageLine == "Usage: patch-openapi-spec.py <path-to-openapi.json>"
Summary(list) ==
    IF list # <<>> THEN "Patched schemas: " \o Join(list)
    ELSE "No schemas needed patching"

\* len(sys.argv) < 2
WrongArgCount_Less(args) == Len(args) < 2
\* len(sys.argv) != 2
WrongArgCount(args) == Len(args) # 2

\* ------------------------------------------------------------ file system
Paths == { "openapi.json", "other.json" }
File(c, r, w) == [exists |-> TRUE, readable |-> r, writable |-> w, content |-> c]
Missing == [exists |-> FALSE, readable |-> FALSE, writable |-> FALSE, content |-> <<>>]

\* every mode truncates, as 'w+' does
Opened_Truncating(file, mode) == [file EXCEPT !.exists = TRUE, !.content = <<>>]
\* open(path, mode) : what the file is once it has been opened
Opened(file, mode) ==
    IF mode = "w" THEN [file EXCEPT !.exists = TRUE, !.content = <<>>] ELSE file
\* the exception open(path, mode) raises, "" when it succeeds
OpenError(file, mode) ==
    IF mode = "r"
    THEN (IF ~file.exists THEN "FileNotFoundError"
          ELSE IF ~file.readable THEN "PermissionError" ELSE "")
    ELSE (IF file.exists /\ ~file.writable THEN "PermissionError" ELSE "")
\* all or nothing: the chunks reach the disk together
Flushed_Whole(chunks, n) == chunks
\* the chunks on disk when the write stops after n chunks
Flushed(chunks, n) == SubSeq(chunks, 1, n)

\* --------------------------------------------------------------- documents
TheField == "additionalProperties"
Entry(fields) == Obj(fields \o << <<"type", Str("object")>> >>)
FieldVals == { Bool(FALSE), Bool(TRUE), Str("false"), Num(0), Null }
ObjEntries == { Entry(<<>>) } \cup { Entry(<< <<TheField, v>> >>) : v \in FieldVals }
EntryVals  == ObjEntries \cup { Arr(<<>>) }
DocNames   == AllowListed \cup { "UnrelatedSchema", "cardDetailsInput" }
\* the names and entries that occur together in one document
PairNames   == { "AIIdentificationInput", "CardDetailsInput",
                 "IdentifyCardResponseInput", "UnrelatedSchema" }
PairEntries == { Entry(<<>>), Entry(<< <<TheField, Bool(FALSE)>> >>),
                 Entry(<< <<TheField, Bool(TRUE)>> >>) }
Distinct(s) == \A a, b \in 1..Len(s) : a # b => s[a][1] # s[b][1]
SchemaSeqs ==
    UNION { { s \in [1..n -> PairNames \X PairEntries] : Distinct(s) } : n \in 0..MaxSchemas }
    \cup { << <<n, e>> >> : n \in DocNames, e \in EntryVals }
    \cup { << <<"AIIdentificationInput", Entry(<< <<TheField, Bool(FALSE)>> >>)>>,
              <<"CardDetailsInput", Arr(<<>>)>> >> }
SchemasVals ==
    { Obj(s) : s \in SchemaSeqs }
    \cup { Arr(<<>>), Arr(<<Str("CardDetailsInput")>>), Str("object"),
           Str("see CardDetailsInput"), Num(1), Bool(FALSE), Null }
Others == << <<"securitySchemes", Obj(<<>>)>> >>
ComponentsVals ==
    { Obj(<< <<"schemas", s>> >> \o Others) : s \in SchemasVals }
    \cup { Obj(Others), Arr(<<>>), Str("schemas"), Num(0), Null }
Version == << <<"openapi", Str("3.0.0")>> >>
Documents ==
    { Obj(Version \o << <<"components", c>> >>) : c \in ComponentsVals }
    \cup { Obj(Version), Arr(<<>>), Null }
\* the documents also tried in the layout the script writes, and read-only
FewDocuments ==
    { d \in Documents :
        IsObj(d) /\ HasKey(Val(d), "components")
        /\ IsObj(Lookup(Val(d), "components"))
        /\ HasKey(Val(Lookup(Val(d), "components")), "schemas")
        /\ IsObj(Lookup(Val(Lookup(Val(d), "components")), "schemas"))
        /\ Len(Val(Lookup(Val(Lookup(Val(d), "components")), "schemas"))) <= 1 }
InputFiles ==
    { File(Compact(d), TRUE, TRUE) : d \in Documents }
    \cup { File(Dump(d, 0), TRUE, w) : d \in FewDocuments, w \in BOOLEAN }
    \cup { File(c, TRUE, TRUE) :
             c \in { <<>>, <<"{">>, <<"{", "}", "}">>, <<"{", "\"type\"", "}">>,
                     <<"{", "\"type\"", ":", "0", ",", "\"type\"", ":", "1", "}">> } }
    \cup { File(<<"{", "}">>, FALSE, TRUE), Missing }
OtherFile == File(<<"[", "]">>, TRUE, TRUE)
Arg(n) == IF n = 1 THEN "openapi.json" ELSE "other.json"

\* ------------------------------------------------------------------- state
VARIABLES
    argv,       \* sys.argv
    fs,         \* the files, by path
    pc,         \* where the process is
    filepath,   \* patch_spec's argument
    spec,       \* the loaded document, mutated in place
    schemas,    \* what `schemas` is bound to: "alias" (the mapping inside
                \* spec), "fresh" (a default {}), or the value found there
    i,          \* index into SCHEMAS_TO_PATCH of the loop
    patched,    \* the list of patched names
    stdout,     \* lines printed
    exit,       \* exit status, -1 while running
    exc,        \* the uncaught exception, "" if none
    run,        \* number of the invocation
    input,      \* the document as json.load returned it in this run
    fsStart,    \* the files when this run started
    opened,     \* the open() calls of this run, <<path, mode>>
    reports     \* the patched lists of the completed runs

vars == <<argv, fs, pc, filepath, spec, schemas, i, patched, stdout, exit, exc,
          run, input, fsStart, opened, reports>>

Init ==
    /\ \E n \in 0..MaxArgs :
          argv = <<"patch-openapi-spec.py">> \o [k \in 1..n |-> Arg(k)]
    /\ \E f \in InputFiles :
          fs = [p \in Paths |-> IF p = "openapi.json" THEN f ELSE OtherFile]
    /\ pc = "start"
    /\ filepath = ""
    /\ spec = Null
    /\ schemas = Null
    /\ i = 0
    /\ patched = <<>>
    /\ stdout = <<>>
    /\ exit = -1
    /\ exc = ""
    /\ run = 1
    /\ input = Null
    /\ fsStart = fs
    /\ opened = <<>>
    /\ reports = <<>>

\* the value `schemas` denotes
SchemasOf(doc, ref) ==
    IF ref = Str("alias") THEN Lookup(Val(Lookup(Val(doc), "components")), "schemas")
    ELSE IF ref = Str("fresh") THEN Obj(<<>>)
    ELSE ref

\* spec after schemas[name] has become entry (schemas is the mapping in spec)
WithEntry(doc, name, entry) ==
    LET comps == Lookup(Val(doc), "components")
        sch   == Lookup(Val(comps), "schemas")
    IN  Obj(SetKey(Val(doc), "components",
            Obj(SetKey(Val(comps), "schemas",
                Obj(SetKey(Val(sch), name, entry))))))

Die(e) ==
    /\ pc' = "raised"
    /\ exc' = e
    /\ exit' = 1

\* line 59-61
MainUsage ==
    /\ pc = "start"
    /\ WrongArgCount(argv)
    /\ stdout' = Append(stdout, UsageLine)
    /\ exit' = 1
    /\ pc' = "exited"
    /\ UNCHANGED <<argv, fs, filepath, spec, schemas, i, patched, exc, run,
                   input, fsStart, opened, reports>>

\* line 59, 63
MainCall ==
    /\ pc = "start"
    /\ ~WrongArgCount(argv)
    /\ filepath' = argv[2]
    /\ pc' = "load"
    /\ UNCHANGED <<argv, fs, spec, schemas, i, patched, stdout, exit, exc, run,
                   input, fsStart, opened, reports>>

\* line 36-37, the file opens and parses
LoadOk ==
    /\ pc = "load"
    /\ OpenError(fs[filepath], "r") = ""
    /\ LET f == Opened(fs[filepath], "r")
           r == Load(f.content)
       IN  /\ r.ok
           /\ fs' = [fs EXCEPT ![filepath] = f]
           /\ spec' = r.val
           /\ input' = r.val
    /\ opened' = Append(opened, <<filepath, "r">>)
    /\ pc' = "navigate"
    /\ UNCHANGED <<argv, filepath, schemas, i, patched, stdout, exit, exc, run,
                   fsStart, reports>>

\* line 36-37, open() or json.load raises
LoadRaise ==
    /\ pc = "load"
    /\ LET e == OpenError(fs[filepath], "r")
       IN  IF e # ""
           THEN /\ Die(e)
                /\ UNCHANGED <<fs, opened>>
           ELSE LET f == Opened(fs[filepath], "r")
                IN  /\ ~Load(f.content).ok
                    /\ fs' = [fs EXCEPT ![filepath] = f]
                    /\ opened' = Append(opened, <<filepath, "r">>)
                    /\ Die("JSONDecodeError")
    /\ UNCHANGED <<argv, filepath, spec, schemas, i, patched, stdout, run,
                   input, fsStart, reports>>

\* line 39-40
Navigate ==
    /\ pc = "navigate"
    /\ LET c == Get(spec, "components", Obj(<<>>))
           s == IF c.exc = "" THEN Get(c.val, "schemas", Obj(<<>>)) ELSE c
       IN  IF s.exc # ""
           THEN /\ Die(s.exc)
                /\ UNCHANGED <<schemas, i, patched>>
           ELSE /\ schemas' =
                     IF IsObj(spec) /\ HasKey(Val(spec), "components")
                        /\ IsObj(c.val) /\ HasKey(Val(c.val), "schemas")
                     THEN (IF IsObj(s.val) THEN Str("alias") ELSE s.val)
                     ELSE Str("fresh")
                /\ patched' = <<>>
                /\ i' = 1
                /\ pc' = "loop"
                /\ UNCHANGED <<exit, exc>>
    /\ UNCHANGED <<argv, fs, filepath, spec, stdout, run, input, fsStart,
                   opened, reports>>

\* line 42-47, one iteration
LoopStep ==
    /\ pc = "loop"
    /\ i <= Len(SCHEMAS_TO_PATCH)
    /\ LET schema_name == SCHEMAS_TO_PATCH[i]
           sch    == SchemasOf(spec, schemas)
           member == In(schema_name, sch)
           schema == GetItem(sch, schema_name)
           field  == Get(schema.val, TheField, Null)
       IN  IF member.exc # ""
           THEN Die(member.exc) /\ UNCHANGED <<spec, i, patched>>
           ELSE IF ~Val(member.val)
           THEN i' = i + 1 /\ UNCHANGED <<spec, patched, pc, exit, exc>>
           ELSE IF schema.exc # ""
           THEN Die(schema.exc) /\ UNCHANGED <<spec, i, patched>>
           ELSE IF field.exc # ""
           THEN Die(field.exc) /\ UNCHANGED <<spec, i, patched>>
           ELSE IF EqFalse(field.val)
           THEN /\ spec' = WithEntry(spec, schema_name,
                                     Obj(DelKey(Val(schema.val), TheField)))
                /\ patched' = RecordPatched(patched, schema_name)
                /\ i' = i + 1
                /\ UNCHANGED <<pc, exit, exc>>
           ELSE i' = i + 1 /\ UNCHANGED <<spec, patched, pc, exit, exc>>
    /\ UNCHANGED <<argv, fs, filepath, schemas, stdout, run, input, fsStart,
                   opened, reports>>

\* line 49, open(filepath, 'w')
OpenWrite ==
    /\ pc = "loop"
    /\ i > Len(SCHEMAS_TO_PATCH)
    /\ LET e == OpenError(fs[filepath], "w")
       IN  IF e # ""
           THEN Die(e) /\ UNCHANGED <<fs, opened>>
           ELSE /\ fs' = [fs EXCEPT ![filepath] = Opened(fs[filepath], "w")]
                /\ opened' = Append(opened, <<filepath, "w">>)
                /\ pc' = "dump"
                /\ UNCHANGED <<exit, exc>>
    /\ UNCHANGED <<argv, filepath, spec, schemas, i, patched, stdout, run,
                   input, fsStart, reports>>

\* line 50, the whole document reaches the file
DumpAll ==
    /\ pc = "dump"
    /\ LET chunks == Dump(spec, 0)
       IN  fs' = [fs EXCEPT ![filepath].content = Flushed(chunks, Len(chunks))]
    /\ pc' = "print"
    /\ UNCHANGED <<argv, filepath, spec, schemas, i, patched, stdout, exit, exc,
                   run, input, fsStart, opened, reports>>

\* line 50, the write stops part way (disk full, I/O error, the process dies)
DumpFail ==
    /\ pc = "dump"
    /\ LET chunks == Dump(spec, 0)
       IN  \E n \in 0..(Len(chunks) - 1) :
              fs' = [fs EXCEPT ![filepath].content = Flushed(chunks, n)]
    /\ Die("OSError")
    /\ UNCHANGED <<argv, filepath, spec, schemas, i, patched, stdout, run,
                   input, fsStart, opened, reports>>

\* line 52-55, then the implicit exit status 0
PrintSummary ==
    /\ pc = "print"
    /\ stdout' = Append(stdout, Summary(patched))
    /\ exit' = 0
    /\ pc' = "exited"
    /\ reports' = Append(reports, patched)
    /\ UNCHANGED <<argv, fs, filepath, spec, schemas, i, patched, exc, run,
                   input, fsStart, opened>>

\* the script is invoked again with the same arguments
Rerun ==
    /\ pc = "exited"
    /\ exit = 0
    /\ run < MaxRuns
    /\ run' = run + 1
    /\ pc' = "start"
    /\ filepath' = ""
    /\ spec' = Null
    /\ schemas' = Null
    /\ i' = 0
    /\ patched' = <<>>
    /\ stdout' = <<>>
    /\ exit' = -1
    /\ input' = Null
    /\ fsStart' = fs
    /\ opened' = <<>>
    /\ UNCHANGED <<argv, fs, exc, reports>>

Next ==
    \/ MainUsage
    \/ MainCall
    \/ LoadOk
    \/ LoadRaise
    \/ Navigate
    \/ LoopStep
    \/ OpenWrite
    \/ DumpAll
    \/ DumpFail
    \/ PrintSummary
    \/ Rerun

Spec == Init /\ [][Next]_vars

TypeOK ==
    /\ pc \in {"start", "load", "navigate", "loop", "dump", "print", "exited", "raised"}
    /\ exit \in {-1, 0, 1}
    /\ run \in 1..MaxRuns


\* ===================================================================== claims
\* the allow-list as the interface contract states it
FixedAllowList ==
    << "AIIdentificationInput", "IdentificationDataInput",
       "CardDetailsInput", "IdentifyCardResponseInput" >>
FixedNames == { "AIIdentificationInput", "IdentificationDataInput",
                "CardDetailsInput", "IdentifyCardResponseInput" }
NoPatchLine == "No schemas needed patching"
Absent == <<"absent", 0>>

Target  == argv[2]
\* the document the run read, and the document now in the file
Input   == input
FileDoc == Load(fs[Target].content)
\* json.load has returned in this run
Loaded  == opened # <<>> /\ exc # "JSONDecodeError"
\* the file has been written in full
Written == pc = "print" \/ (pc = "exited" /\ exit = 0)
Finished == pc = "exited" /\ exit = 0
WroteTo(path) == \E k \in 1..Len(opened) : opened[k] = <<path, "w">>

HasComponents(d) == IsObj(d) /\ HasKey(Val(d), "components")
ComponentsIn(d)  == Lookup(Val(d), "components")
HasSchemas(d) ==
    HasComponents(d) /\ IsObj(ComponentsIn(d)) /\ HasKey(Val(ComponentsIn(d)), "schemas")
SchemasIn(d)  == Lookup(Val(ComponentsIn(d)), "schemas")
WellFormed(d) == HasSchemas(d) /\ IsObj(SchemasIn(d))
\* the entries under components.schemas, none if there is no such mapping
Entries(d) == IF WellFormed(d) THEN Val(SchemasIn(d)) ELSE <<>>
FieldOf(entry, k) ==
    IF IsObj(entry) /\ HasKey(Val(entry), k) THEN Lookup(Val(entry), k) ELSE Absent
EntryOf(m, name) == IF HasKey(m, name) THEN Lookup(m, name) ELSE Absent
Recorded(name) == \E k \in 1..Len(patched) : patched[k] = name
KeysOf(m) == [k \in 1..Len(m) |-> m[k][1]]

\* C1: for every allow-listed entry under components.schemas the field
\* additionalProperties is removed, and the name recorded as patched, if and
\* only if the field is present with the value boolean false; with any other
\* value (absent, true, "false", 0, null) the entry is untouched and the name
\* is not recorded.
C1_ConditionalMutation ==
    Written =>
        LET in  == Entries(Input)
            out == Entries(FileDoc.val)
        IN  \A k \in 1..Len(in) :
              (in[k][1] \in FixedNames /\ IsObj(in[k][2])) =>
                 /\ HasKey(out, in[k][1])
                 /\ IF FieldOf(in[k][2], TheField) = Bool(FALSE)
                    THEN /\ FieldOf(EntryOf(out, in[k][1]), TheField) = Absent
                         /\ Recorded(in[k][1])
                    ELSE /\ EntryOf(out, in[k][1]) = in[k][2]
                         /\ ~Recorded(in[k][1])

\* C2: for every schema name that is not one of the four allow-listed names
\* the entry's additionalProperties in the written document equals its value
\* in the input document, also when that value is boolean false.
C2_Selectivity ==
    Written =>
        LET in  == Entries(Input)
            out == Entries(FileDoc.val)
        IN  \A k \in 1..Len(in) :
              in[k][1] \notin FixedNames =>
                 /\ HasKey(out, in[k][1])
                 /\ FieldOf(EntryOf(out, in[k][1]), TheField) = FieldOf(in[k][2], TheField)

C2_Witness ==
    /\ Finished
    /\ patched # <<>>
    /\ \E k \in 1..Len(Entries(Input)) :
          /\ Entries(Input)[k][1] \notin FixedNames
          /\ FieldOf(Entries(Input)[k][2], TheField) = Bool(FALSE)

\* C3: a second run in succession never fails, records no patched name,
\* leaves the file exactly as the first run wrote it, and prints that no
\* schemas needed patching.
C3_Idempotence ==
    run >= 2 =>
        /\ exc \in {"", "OSError"}
        /\ patched = <<>>
        /\ Written => (fs = fsStart /\ FileDoc.ok)
        /\ pc = "exited" => (exit = 0 /\ stdout = <<NoPatchLine>>)

C3_Witness ==
    /\ run = 2
    /\ Finished
    /\ reports[1] # <<>>
    /\ Len(reports) = 2

\* C4: the recorded names are exactly the allow-listed names whose
\* additionalProperties was removed in this run, each once, in allow-list
\* order; the line printed is that list joined by ", ", or the fixed message
\* when the list is empty.
RemovedIn(name) ==
    /\ HasKey(Entries(Input), name)
    /\ FieldOf(EntryOf(Entries(Input), name), TheField) # Absent
    /\ HasKey(Entries(FileDoc.val), name)
    /\ FieldOf(EntryOf(Entries(FileDoc.val), name), TheField) = Absent
RECURSIVE CommaList(_)
CommaList(names) ==
    IF Len(names) = 1 THEN names[1] ELSE names[1] \o ", " \o CommaList(Tail(names))
C4_ReportingAccuracy ==
    Written =>
        LET removed == SelectSeq(FixedAllowList, RemovedIn)
        IN  /\ patched = removed
            /\ Finished =>
                  stdout = << IF removed = <<>> THEN NoPatchLine
                              ELSE "Patched schemas: " \o CommaList(removed) >>

C4_Witness ==
    /\ Finished
    /\ patched = <<"AIIdentificationInput", "CardDetailsInput">>
    /\ KeysOf(Entries(Input)) = <<"CardDetailsInput", "AIIdentificationInput">>
    /\ stdout = <<"Patched schemas: AIIdentificationInput, CardDetailsInput">>

\* C5: when the document has no components key, or components has no schemas
\* key, or schemas holds none of the allow-listed names, the run raises no
\* error of its own, writes back a document equal to the input and prints
\* that no schemas needed patching.
NothingToFind(d) ==
    /\ IsObj(d)
    /\ \/ ~HasKey(Val(d), "components")
       \/ IsObj(ComponentsIn(d)) /\ ~HasKey(Val(ComponentsIn(d)), "schemas")
       \/ /\ WellFormed(d)
          /\ \A k \in 1..Len(Entries(d)) : Entries(d)[k][1] \notin FixedNames
C5_MissingSchemaTolerance ==
    (Loaded /\ NothingToFind(Input)) =>
        /\ exc \in {"", "OSError", "PermissionError"}
        /\ patched = <<>>
        /\ Written => (FileDoc.ok /\ FileDoc.val = Input)
        /\ pc = "exited" => (exit = 0 /\ stdout = <<NoPatchLine>>)

C5_Witness ==
    /\ Finished
    /\ run = 1
    /\ IsObj(Input)
    /\ ~HasKey(Val(Input), "components")
    /\ stdout = <<NoPatchLine>>

\* C6: with any number of arguments other than one the script prints the
\* usage line, exits with status 1 and opens no file, so every file is as it
\* was; patch_spec runs only with exactly one argument.
C6_UsageError ==
    /\ Len(argv) # 2 =>
          /\ pc \in {"start", "exited"}
          /\ opened = <<>>
          /\ fs = fsStart
          /\ filepath = ""
          /\ pc = "exited" =>
                (exit = 1 /\ stdout = <<"Usage: patch-openapi-spec.py <path-to-openapi.json>">>)
    /\ (filepath # "" \/ opened # <<>>) => (Len(argv) = 2 /\ filepath = argv[2])

C6_Witness ==
    /\ Len(argv) = 3
    /\ pc = "exited"
    /\ exit = 1

\* C7: when the file is missing, unreadable or does not parse, the run ends
\* as an uncaught failure and the file is never opened for writing, so every
\* file is as it was; the file is opened for writing only after it has been
\* opened for reading and parsed in full.
LoadFailed ==
    /\ pc = "raised"
    /\ \/ exc \in {"FileNotFoundError", "JSONDecodeError"}
       \/ exc = "PermissionError" /\ opened = <<>>
C7_NoWriteOnLoadFailure ==
    /\ LoadFailed =>
          /\ fs = fsStart
          /\ exit = 1
          /\ stdout = <<>>
          /\ \A p \in Paths : ~WroteTo(p)
    /\ (\E p \in Paths : WroteTo(p)) =>
          /\ opened = <<<<Target, "r">>, <<Target, "w">>>>
          /\ exc \notin {"FileNotFoundError", "JSONDecodeError"}
    /\ pc \in {"dump", "print"} =>
          /\ WroteTo(Target)
          /\ Load(fsStart[Target].content).ok
          /\ Load(fsStart[Target].content).val = input

C7_Witness ==
    /\ pc = "raised"
    /\ exc = "JSONDecodeError"
    /\ fs[Target].content # <<>>

\* C8: the written document is the input document with the field
\* additionalProperties taken out of the patched entries and nothing else
\* changed: the other fields of those entries, the other entries and their
\* order, and everything outside components.schemas are as in the input.
Without(entry, k) == Obj(SelectSeq(Val(entry), LAMBDA kv : kv[1] # k))
Replace(m, key, v) == [k \in 1..Len(m) |-> IF m[k][1] = key THEN <<key, v>> ELSE m[k]]
Expected(d) ==
    IF patched = <<>> THEN d
    ELSE LET stripped == [k \in 1..Len(Entries(d)) |->
                            IF Recorded(Entries(d)[k][1])
                            THEN <<Entries(d)[k][1], Without(Entries(d)[k][2], TheField)>>
                            ELSE Entries(d)[k]]
         IN  Obj(Replace(Val(d), "components",
                 Obj(Replace(Val(ComponentsIn(d)), "schemas", Obj(stripped)))))
C8_RemovalOnly ==
    Written =>
        /\ FileDoc.ok
        /\ FileDoc.val = Expected(Input)
        /\ \A k \in 1..Len(patched) :
              /\ HasKey(Entries(FileDoc.val), patched[k])
              /\ FieldOf(EntryOf(Entries(FileDoc.val), patched[k]), TheField) = Absent

C8_Witness ==
    /\ Finished
    /\ patched = <<"CardDetailsInput">>
    /\ Len(Entries(Input)) = 2
    /\ FieldOf(EntryOf(Entries(Input), "CardDetailsInput"), TheField) = Bool(FALSE)
    /\ FieldOf(EntryOf(Entries(FileDoc.val), "CardDetailsInput"), "type") = Str("object")
    /\ FieldOf(EntryOf(Entries(FileDoc.val), "UnrelatedSchema"), TheField) = Bool(FALSE)

\* C9 as stated: when components or schemas is present but is not an object,
\* the run raises no error of its own and completes with zero patches.
Malformed(d) ==
    /\ HasComponents(d)
    /\ \/ ~IsObj(ComponentsIn(d))
       \/ HasSchemas(d) /\ ~IsObj(SchemasIn(d))
C9_LenientMalformed ==
    (Loaded /\ Malformed(Input)) =>
        /\ exc \in {"", "OSError", "PermissionError"}
        /\ patched = <<>>

\* C9 amended: a components value that is not an object ends the run with an
\* AttributeError; a schemas value that is a number, a boolean or null, or a
\* list or string that contains an allow-listed name, ends it with a
\* TypeError; in both cases nothing is printed and no file changes. Only a
\* schemas value that is a list or string containing no allow-listed name is
\* ignored: the run then completes with zero patches and the document is
\* written back equal to the input.
Iterable(v) == Tag(v) \in {"arr", "str"}
HoldsAllowListed(v) ==
    \E n \in FixedNames :
        \/ Tag(v) = "arr" /\ \E k \in 1..Len(Val(v)) : Val(v)[k] = Str(n)
        \/ Tag(v) = "str" /\ StrContains(Val(v), n)
Aborted(e) ==
    /\ pc \in {"navigate", "loop", "raised"}
    /\ pc = "raised" => (exc = e /\ exit = 1 /\ fs = fsStart /\ stdout = <<>>)
    /\ patched = <<>>
C9_MalformedOutcome ==
    (Loaded /\ Malformed(Input)) =>
        IF ~IsObj(ComponentsIn(Input))
        THEN Aborted("AttributeError") /\ pc # "loop"
        ELSE IF ~Iterable(SchemasIn(Input))
        THEN Aborted("TypeError") /\ (pc = "loop" => i = 1)
        ELSE IF HoldsAllowListed(SchemasIn(Input))
        THEN Aborted("TypeError")
        ELSE /\ exc \in {"", "OSError", "PermissionError"}
             /\ patched = <<>>
             /\ Written => (FileDoc.ok /\ FileDoc.val = Input)
             /\ pc = "exited" => (exit = 0 /\ stdout = <<NoPatchLine>>)

C9_Witness ==
    /\ Loaded
    /\ Malformed(Input)
    /\ Tag(ComponentsIn(Input)) = "arr"
    /\ pc = "raised"
    /\ exc = "AttributeError"

\* C10: from the moment the file is opened for writing until the document is
\* written in full, and for good when the write stops part way, the file at
\* the same path holds neither the original text nor the complete patched
\* document but a proper prefix of it; no other path is opened or changed.
Interrupted == pc = "raised" /\ exc = "OSError"
C10_NonAtomicWrite ==
    (pc = "dump" \/ Interrupted) =>
        LET now  == fs[Target].content
            full == Dump(spec, 0)
        IN  /\ now # fsStart[Target].content
            /\ Len(now) < Len(full)
            /\ now = SubSeq(full, 1, Len(now))
            /\ \A p \in Paths \ {Target} : fs[p] = fsStart[p]
            /\ \A k \in 1..Len(opened) : opened[k][1] = Target

\* a write that stopped part way: the file parses neither as the original
\* nor as the patched document
C10_Witness ==
    /\ Interrupted
    /\ fs[Target].content # <<>>
    /\ patched # <<>>
    /\ ~FileDoc.ok
    /\ Load(fsStart[Target].content).ok

====
